---- MODULE Spec2Model ----
(***************************************************************************)
(* Model of bot.py: the job aggregation pipeline (fetch_remoteok,          *)
(* fetch_arbeitnow, fetch_jobs), the draft generator                       *)
(* (generate_candidature), the two pipeline invocations that share         *)
(* bot_data["sent_jobs"] (the handler missions_command and the JobQueue    *)
(* callback scheduled_prospection), the toggle auto_command and the        *)
(* profile commands profil_command and setprofil_command.                  *)
(*                                                                         *)
(* Both pipeline invocations are coroutines on one asyncio event loop:     *)
(* each is suspended at its awaits (network I/O), where the other may run. *)
(* pc[p] names the await a coroutine is suspended at; one action is the    *)
(* resumption from that await up to the next one.                          *)
(***************************************************************************)
EXTENDS Integers, Sequences, FiniteSets, TLC

\* ---------------------------------------------------------------- bounds
\* Largest number of records the two sources hold together, interleaved runs (Spec).
MaxJobs == 2
\* Largest number of records in a source response, serialized runs (SpecSeq).
MaxRokSeq == 2
MaxAbnSeq == 1

\* ------------------------------------------------------------- constants
\* batch = new_jobs[:5]
BatchSize == 5

Paths == {"cmd", "job"}
\* bot_data.get("auto_chat_id") of a store that never held one: None (falsy)
NoChat == "None"
\* a key the JSON object does not have
Absent == "<absent>"
\* generate_candidature's fixed return value on failure
Placeholder == "Erreur lors de la generation de la candidature."
\* candidature before the first assignment of the loop
Unset == "<unset>"

Min(a, b) == IF a < b THEN a ELSE b

\* ------------------------------------------------------------------ text
\* A Python str is modelled by a TLA+ string; Chars gives its characters
\* (e' stands for the one character e-acute).
KEYWORDS ==
    << "frontend", "backend", "fullstack", "full-stack", "full stack",
       "react", "next.js", "nextjs", "vue", "angular",
       "svelte", "node", "django", "flask", "fastapi",
       "laravel", "php", "typescript", "javascript", "python",
       "mobile", "react native", "flutter", "ios", "android",
       "web developer", "web dev", "software engineer", "developer", "de'veloppeur",
       "developpeur" >>

Chars ==
       ("frontend" :> <<"f", "r", "o", "n", "t", "e", "n", "d">>)
    @@ ("backend" :> <<"b", "a", "c", "k", "e", "n", "d">>)
    @@ ("fullstack" :> <<"f", "u", "l", "l", "s", "t", "a", "c", "k">>)
    @@ ("full-stack" :> <<"f", "u", "l", "l", "-", "s", "t", "a", "c", "k">>)
    @@ ("full stack" :> <<"f", "u", "l", "l", " ", "s", "t", "a", "c", "k">>)
    @@ ("react" :> <<"r", "e", "a", "c", "t">>)
    @@ ("next.js" :> <<"n", "e", "x", "t", ".", "j", "s">>)
    @@ ("nextjs" :> <<"n", "e", "x", "t", "j", "s">>)
    @@ ("vue" :> <<"v", "u", "e">>)
    @@ ("angular" :> <<"a", "n", "g", "u", "l", "a", "r">>)
    @@ ("svelte" :> <<"s", "v", "e", "l", "t", "e">>)
    @@ ("node" :> <<"n", "o", "d", "e">>)
    @@ ("django" :> <<"d", "j", "a", "n", "g", "o">>)
    @@ ("flask" :> <<"f", "l", "a", "s", "k">>)
    @@ ("fastapi" :> <<"f", "a", "s", "t", "a", "p", "i">>)
    @@ ("laravel" :> <<"l", "a", "r", "a", "v", "e", "l">>)
    @@ ("php" :> <<"p", "h", "p">>)
    @@ ("typescript" :> <<"t", "y", "p", "e", "s", "c", "r", "i", "p", "t">>)
    @@ ("javascript" :> <<"j", "a", "v", "a", "s", "c", "r", "i", "p", "t">>)
    @@ ("python" :> <<"p", "y", "t", "h", "o", "n">>)
    @@ ("mobile" :> <<"m", "o", "b", "i", "l", "e">>)
    @@ ("react native" :> <<"r", "e", "a", "c", "t", " ", "n", "a", "t", "i", "v", "e">>)
    @@ ("flutter" :> <<"f", "l", "u", "t", "t", "e", "r">>)
    @@ ("ios" :> <<"i", "o", "s">>)
    @@ ("android" :> <<"a", "n", "d", "r", "o", "i", "d">>)
    @@ ("web developer" :> <<"w", "e", "b", " ", "d", "e", "v", "e", "l", "o", "p", "e", "r">>)
    @@ ("web dev" :> <<"w", "e", "b", " ", "d", "e", "v">>)
    @@ ("software engineer" :> <<"s", "o", "f", "t", "w", "a", "r", "e", " ", "e", "n", "g", "i", "n", "e", "e", "r">>)
    @@ ("developer" :> <<"d", "e", "v", "e", "l", "o", "p", "e", "r">>)
    @@ ("de'veloppeur" :> <<"d", "e'", "v", "e", "l", "o", "p", "p", "e", "u", "r">>)
    @@ ("developpeur" :> <<"d", "e", "v", "e", "l", "o", "p", "p", "e", "u", "r">>)
    @@ ("" :> <<>>)
    @@ ("React Dev" :> <<"R", "e", "a", "c", "t", " ", "D", "e", "v">>)
    @@ ("Backend Dev" :> <<"B", "a", "c", "k", "e", "n", "d", " ", "D", "e", "v">>)
    @@ ("Vue Dev" :> <<"V", "u", "e", " ", "D", "e", "v">>)
    @@ ("Cat Groomer" :> <<"C", "a", "t", " ", "G", "r", "o", "o", "m", "e", "r">>)
    @@ ("Acme" :> <<"A", "c", "m", "e">>)
    @@ ("pets" :> <<"p", "e", "t", "s">>)
    @@ ("N/A" :> <<"N", "/", "A">>)
    @@ ("nom" :> <<"n", "o", "m">>)
    @@ ("competences" :> <<"c", "o", "m", "p", "e", "t", "e", "n", "c", "e", "s">>)
    @@ ("experience" :> <<"e", "x", "p", "e", "r", "i", "e", "n", "c", "e">>)
    @@ ("portfolio" :> <<"p", "o", "r", "t", "f", "o", "l", "i", "o">>)
    @@ ("NOM" :> <<"N", "O", "M">>)
    @@ ("age" :> <<"a", "g", "e">>)
    @@ ("Ada" :> <<"A", "d", "a">>)
    @@ ("30" :> <<"3", "0">>)
    @@ ("Camel" :> <<"C", "a", "m", "e", "l">>)

UpperToLower ==
       ("A" :> "a") @@ ("B" :> "b") @@ ("C" :> "c") @@ ("D" :> "d") @@ ("E" :> "e")
    @@ ("F" :> "f") @@ ("G" :> "g") @@ ("H" :> "h") @@ ("I" :> "i") @@ ("J" :> "j")
    @@ ("K" :> "k") @@ ("L" :> "l") @@ ("M" :> "m") @@ ("N" :> "n") @@ ("O" :> "o")
    @@ ("P" :> "p") @@ ("Q" :> "q") @@ ("R" :> "r") @@ ("S" :> "s") @@ ("T" :> "t")
    @@ ("U" :> "u") @@ ("V" :> "v") @@ ("W" :> "w") @@ ("X" :> "x") @@ ("Y" :> "y")
    @@ ("Z" :> "z") @@ ("E'" :> "e'")

\* str.lower(), on characters
Lower(cs) ==
    [i \in 1..Len(cs) |-> IF cs[i] \in DOMAIN UpperToLower THEN UpperToLower[cs[i]] ELSE cs[i]]

\* " ".join(tags), on characters
RECURSIVE Join(_)
Join(tags) ==
    IF tags = <<>> THEN <<>>
    ELSE IF Len(tags) = 1 THEN Chars[tags[1]]
    ELSE Chars[tags[1]] \o <<" ">> \o Join(Tail(tags))

\* kw in search_text
Contains(text, kw) ==
    \E i \in 0..(Len(text) - Len(kw)) : SubSeq(text, i + 1, i + Len(kw)) = kw

\* any(kw in search_text for kw in KEYWORDS)
AnyKeyword(text) ==
    \E k \in 1..Len(KEYWORDS) : Contains(text, Chars[KEYWORDS[k]])

\* item.get(key, default) / (item.get(key) or default)
Get(v, default) == IF v = Absent THEN default ELSE v

\* --------------------------------------------------------------- adapters
\* search_text of fetch_remoteok: title, tags and company
RokSearchText(item) ==
    Lower(Lower(Chars[Get(item.position, "")]) \o <<" ">>
          \o Lower(Join(item.tags)) \o <<" ">>
          \o Chars[Get(item.company, "")])

\* search_text of fetch_arbeitnow: title, description and tags
AbnSearchText(item) ==
    Lower(Chars[Get(item.title, "")]) \o <<" ">>
    \o Lower(Chars[Get(item.description, "")]) \o <<" ">>
    \o Lower(Join(item.tags))

\* the dict appended to jobs by fetch_remoteok
RokJob(item) ==
    [id |-> <<"rok", Get(item.id, "")>>,
     title |-> Get(item.position, "N/A"),
     source |-> "RemoteOK"]

\* the dict appended to jobs by fetch_arbeitnow
AbnJob(item) ==
    [id |-> <<"abn", Get(item.slug, "")>>,
     title |-> Get(item.title, "N/A"),
     source |-> "Arbeitnow"]

\* The for loop of fetch_remoteok: item.get on an item that is no JSON object
\* raises, which leaves the loop.
RECURSIVE RokLoop(_, _)
RokLoop(items, jobs) ==
    IF items = <<>> THEN [raised |-> FALSE, jobs |-> jobs]
    ELSE LET item == Head(items) IN
         IF item.json # "object" THEN [raised |-> TRUE, jobs |-> jobs]
         ELSE RokLoop(Tail(items),
                      IF AnyKeyword(RokSearchText(item))
                      THEN Append(jobs, RokJob(item)) ELSE jobs)

RECURSIVE AbnLoop(_, _)
AbnLoop(items, jobs) ==
    IF items = <<>> THEN [raised |-> FALSE, jobs |-> jobs]
    ELSE LET item == Head(items) IN
         IF item.json # "object" THEN [raised |-> TRUE, jobs |-> jobs]
         ELSE AbnLoop(Tail(items),
                      IF AnyKeyword(AbnSearchText(item))
                      THEN Append(jobs, AbnJob(item)) ELSE jobs)

\* fetch_remoteok: resp.ok is FALSE for a transport error or a non-2xx status
\* (raise_for_status); data[0] is metadata; any exception gives [].
FetchRemoteok(resp) ==
    IF ~resp.ok THEN <<>>
    ELSE LET r == RokLoop(Tail(resp.data), <<>>) IN
         IF r.raised THEN <<>> ELSE r.jobs

\* fetch_arbeitnow: the records are data["data"]; any exception gives [].
FetchArbeitnow(resp) ==
    IF ~resp.ok THEN <<>>
    ELSE LET r == AbnLoop(resp.data, <<>>) IN
         IF r.raised THEN <<>> ELSE r.jobs

\* fetch_jobs if a failing adapter made the whole gather fail
FetchJobsAllOrNothing(rokResp, abnResp) ==
    IF rokResp.ok /\ abnResp.ok
    THEN FetchRemoteok(rokResp) \o FetchArbeitnow(abnResp) ELSE <<>>

\* fetch_jobs: gather both adapters and extend all_jobs in that order.
FetchJobs(rokResp, abnResp) ==
    FetchRemoteok(rokResp) \o FetchArbeitnow(abnResp)

\* new_jobs without the filter
NewJobsUnfiltered(jobs, sent) == jobs

\* new_jobs = [j for j in jobs if j["id"] not in sent_jobs]
NewJobs(jobs, sent) == SelectSeq(jobs, LAMBDA j : j.id \notin sent)

\* batch = new_jobs[:5]
BatchOf(new) == SubSeq(new, 1, Min(Len(new), BatchSize))

\* generate_candidature if a failure left the draft empty
GenerateCandidatureNoText(resp) ==
    IF resp = "ok" THEN "draft" ELSE Unset

\* generate_candidature: the text on a 200 response with the expected shape,
\* the placeholder on a non-200 status and on any exception.
GenerateCandidature(resp) ==
    IF resp = "ok" THEN "draft" ELSE Placeholder

\* sent_jobs if marking an id replaced the set
MarkSentOnly(sent, id) == {id}

\* sent_jobs.add(job["id"])
MarkSent(sent, id) == sent \cup {id}

\* ------------------------------------------------------------ the sources
\* What the two job boards answer. Record i of a response has native id i
\* and a title that matches a keyword; a variant changes one thing: one record
\* matches no keyword, one record is no JSON object, or the last two records
\* have no native id.
RelevantTitles == <<"React Dev", "Backend Dev", "Vue Dev">>
TitleAt(i) == RelevantTitles[((i - 1) % Len(RelevantTitles)) + 1]
Mid(n) == (n + 1) \div 2
Variants == {"plain", "irrelevant", "malformed", "noid"}

RokMeta ==
    [json |-> "object", id |-> Absent, position |-> Absent, tags |-> <<>>,
     company |-> Absent]

RokItem(i, n, v) ==
    [json |-> IF v = "malformed" /\ i = Mid(n) THEN "null" ELSE "object",
     id |-> IF v = "noid" /\ i >= n - 1 THEN Absent ELSE ToString(i),
     position |-> IF v = "irrelevant" /\ i = Mid(n) THEN "Cat Groomer" ELSE TitleAt(i),
     tags |-> IF v = "irrelevant" /\ i = Mid(n) THEN <<"pets">> ELSE <<>>,
     company |-> "Acme"]

AbnItem(i, n, v) ==
    [json |-> IF v = "malformed" /\ i = Mid(n) THEN "null" ELSE "object",
     slug |-> IF v = "noid" /\ i >= n - 1 THEN Absent ELSE ToString(i),
     title |-> IF v = "irrelevant" /\ i = Mid(n) THEN "Cat Groomer" ELSE "N/A",
     description |-> "",
     tags |-> IF v = "irrelevant" /\ i = Mid(n) THEN <<"pets">> ELSE <<"python", "pets">>]

RokData(n, v) == <<RokMeta>> \o [i \in 1..n |-> RokItem(i, n, v)]
AbnData(n, v) == [i \in 1..n |-> AbnItem(i, n, v)]

\* The responses with at most maxR and maxA records, at most one of them a variant.
Worlds(maxR, maxA, variants) ==
    { [rok |-> RokData(w[1], w[2]), abn |-> AbnData(w[3], w[4])] :
        w \in { x \in (0..maxR) \X variants \X (0..maxA) \X variants :
                  /\ x[2] = "plain" \/ x[4] = "plain"
                  /\ x[1] = 0 => x[2] = "plain"
                  /\ x[3] = 0 => x[4] = "plain" } }

\* n well-formed relevant records, split between the two sources.
SplitWorld(n) ==
    [rok |-> RokData((n + 1) \div 2, "plain"), abn |-> AbnData(n \div 2, "plain")]

\* More new postings than one batch takes, the last of them from Arbeitnow.
LongWorld == [rok |-> RokData(BatchSize - 1, "plain"), abn |-> AbnData(2, "plain")]

\* ------------------------------------------------------------------ state
VARIABLES
    rokData,       \* what remoteok.com/api answers (data)
    abnData,       \* what arbeitnow's job-board-api answers (data["data"])
    chats,         \* the chats that talk to the bot
    serialized,    \* TRUE: a pipeline invocation starts only when none is running
    net,           \* which requests may fail: any of them, or the sends of some postings
    profile,       \* bot_data["profile"]
    sent_jobs,     \* bot_data["sent_jobs"]
    auto_enabled,  \* bot_data["auto_enabled"]
    auto_chat_id,  \* bot_data["auto_chat_id"]
    pc,            \* the await each coroutine is suspended at
    chat_id,       \* local chat_id
    jobs,          \* local jobs
    new_jobs,      \* local new_jobs
    idx,           \* position of the for loop in batch (1-based)
    candidature,   \* local candidature
    run,           \* what the current invocation of each path has done so far
    delivered,     \* ids each path has handed to the chat, over all invocations
    redelivered,   \* ids handed to the chat by an invocation after another one did
    stored         \* the chats bot_data["auto_chat_id"] has held

vars ==
    <<rokData, abnData, chats, serialized, net, profile, sent_jobs, auto_enabled,
      auto_chat_id, pc, chat_id, jobs, new_jobs, idx, candidature, run, delivered, redelivered, stored>>

world == <<rokData, abnData, chats, serialized, net>>
auto == <<auto_enabled, auto_chat_id>>
history == <<delivered, redelivered, stored>>

Batch(p) == BatchOf(new_jobs[p])
AllDelivered == delivered["cmd"] \cup delivered["job"]
GroqResponses == {"ok", "non200", "transport", "malformed"}

\* PROFIL_DEFAUT; the three long texts are kept as one token each
PROFIL_DEFAUT ==
    [nom |-> Chars["Camel"],
     competences |-> <<"React, Next.js, React Native, Node.js, TypeScript, Python, Flutter">>,
     experience |-> <<"Developpeur web & mobile freelance ...">>,
     portfolio |-> <<"https://github.com/Camel">>]
\* valid_fields of setprofil_command
ValidFields == {"nom", "competences", "experience", "portfolio"}
\* bot_data without the key "profile"
NoProfile == [saved |-> FALSE, fields |-> PROFIL_DEFAUT]
\* context.bot_data.get("profile", PROFIL_DEFAUT.copy())
GetProfile == IF profile.saved THEN profile.fields ELSE PROFIL_DEFAUT
\* context.args of the /setprofil updates
ArgLists == {<<>>, <<"nom">>, <<"NOM", "Ada">>, <<"age", "30">>}

\* No count reported: the "Termine" message was not sent.
NoCount == -1

\* The network: any request may fail each time it is made (AnyFailure), or
\* every request goes through but the sends of the postings in ids, which
\* Telegram refuses each time (Rejecting).
AnyFailure == [free |-> TRUE, rejects |-> {}]
Rejecting(ids) == [free |-> FALSE, rejects |-> ids]
\* does a request (a source's GET, a status send_message) return or raise
RequestOutcomes == IF net.free THEN BOOLEAN ELSE {TRUE}
\* does a send_message of the posting id (formatted or plain) return or raise
SendOutcomes(id) == IF net.free THEN BOOLEAN ELSE {id \notin net.rejects}

RunStart ==
    [fetched |-> FALSE,   \* fetch_jobs has returned
     rokUp |-> FALSE,     \* RemoteOK answered 2xx with JSON
     abnUp |-> FALSE,     \* Arbeitnow answered 2xx with JSON
     drafts |-> 0,        \* calls of generate_candidature
     attempts |-> 0,      \* postings whose formatted send was issued
     finished |-> 0,      \* postings the loop is through with
     prim |-> 0,          \* formatted sends issued for the current posting
     fb |-> 0,            \* plain sends issued for the current posting
     last |-> "none",     \* how the latest finished posting ended
     failed |-> {},       \* ids whose formatted and plain send both failed
     delivered |-> {},    \* ids handed to the chat
     genFail |-> FALSE,   \* the latest generation call failed
     raised |-> FALSE,    \* the invocation ended by an exception
     dest0 |-> NoChat,    \* bot_data["auto_chat_id"] when the scheduled run started
     msgs |-> {},         \* the messages handed to Telegram, as <<kind, chat>>
     again |-> {},        \* ids handed to the chat a second time
     reported |-> NoCount] \* the count in the "Termine" message

InitWith(worlds, talking, ser, nets) ==
    /\ \E w \in worlds : rokData = w.rok /\ abnData = w.abn
    /\ chats = talking
    /\ serialized = ser
    /\ net \in nets
    /\ profile = NoProfile
    /\ sent_jobs = {}
    /\ auto_enabled = FALSE
    /\ auto_chat_id = NoChat
    /\ pc = [p \in Paths |-> "idle"]
    /\ chat_id = [p \in Paths |-> NoChat]
    /\ jobs = [p \in Paths |-> <<>>]
    /\ new_jobs = [p \in Paths |-> <<>>]
    /\ idx = [p \in Paths |-> 0]
    /\ candidature = [p \in Paths |-> Unset]
    /\ run = [p \in Paths |-> RunStart]
    /\ delivered = [p \in Paths |-> {}]
    /\ redelivered = {}
    /\ stored = {}

Init == InitWith({SplitWorld(n) : n \in 0..MaxJobs}, {"D1"}, FALSE, {AnyFailure})
InitSeq ==
    InitWith(Worlds(MaxRokSeq, MaxAbnSeq, Variants) \cup {LongWorld}, {"D1"}, TRUE,
             {AnyFailure})

\* ---------------------------------------------------------------- actions
\* Updates are processed one at a time and the JobQueue runs one instance of
\* its job at a time, but a handler and the job interleave at their awaits.
\* A coroutine that is through returns at once: "done" is the end of its last
\* resumption, and nothing runs before Return.
NoneDone == \A q \in Paths : pc[q] # "done"

CanStart(p) ==
    /\ NoneDone
    /\ pc[p] = "idle"
    /\ serialized => \A q \in Paths : pc[q] = "idle"

\* an exception leaves the coroutine
Raise(p) ==
    /\ pc' = [pc EXCEPT ![p] = "done"]
    /\ run' = [run EXCEPT ![p].raised = TRUE]

\* where the coroutine goes after the for loop
AfterLoop(p) == IF p = "cmd" THEN "final" ELSE "done"

\* the for loop if a posting whose sends both failed ended it
NextPcAbort(p, i, n, outcome) ==
    IF outcome = "failed" \/ i >= n THEN AfterLoop(p) ELSE "gen"

\* the for loop goes on with the next posting whatever happened to this one
NextPc(p, i, n, outcome) == IF i < n THEN "gen" ELSE AfterLoop(p)

\* sent_jobs if the id were added whatever the send did
TrackedAlways(sent, id, ok) == MarkSent(sent, id)

\* sent_jobs after a send returned (ok) or raised (~ok)
Tracked(sent, id, ok) == IF ok THEN MarkSent(sent, id) ELSE sent

\* send_message(chat_id=chat_id, ...) if it read the stored chat at each send
DestStored(p) == IF p = "job" THEN auto_chat_id ELSE chat_id[p]

\* send_message(chat_id=chat_id, ...): the chat is the coroutine's local
Dest(p) == chat_id[p]

\* the messages of the invocation after a send_message returned (ok) or raised
Posted(p, kind, ok) == IF ok THEN run[p].msgs \cup {<<kind, Dest(p)>>} ELSE run[p].msgs

\* bot_data["auto_chat_id"] if enabling kept a chat stored before
AutoChatIdFirst(enabled, chat, c) == IF enabled /\ chat = NoChat THEN c ELSE chat

\* bot_data["auto_chat_id"] if disabling cleared it
AutoChatIdCleared(enabled, chat, c) == IF enabled THEN c ELSE NoChat

\* bot_data["auto_chat_id"] after the flag became enabled, toggled from chat c
AutoChatId(enabled, chat, c) == IF enabled THEN c ELSE chat

\* the guards of scheduled_prospection if the flag were not read
ArmedAlways(enabled, chat) == chat # NoChat

\* the guards of scheduled_prospection: enabled, and a chat is stored
Armed(enabled, chat) == enabled /\ chat # NoChat

\* auto_command: toggle, and store the chat when enabling
AutoCommand(c) ==
    /\ NoneDone
    /\ pc["cmd"] = "idle"
    /\ auto_enabled' = ~auto_enabled
    /\ auto_chat_id' = AutoChatId(~auto_enabled, auto_chat_id, c)
    /\ stored' = stored \cup ({auto_chat_id'} \ {NoChat})
    /\ UNCHANGED <<world, profile, sent_jobs, pc, chat_id, jobs, new_jobs, idx, candidature,
                   run, delivered, redelivered>>

\* missions_command up to the await of the "Recherche..." send
MissionsCommand(c) ==
    /\ CanStart("cmd")
    /\ pc' = [pc EXCEPT !["cmd"] = "status"]
    /\ chat_id' = [chat_id EXCEPT !["cmd"] = c]
    /\ run' = [run EXCEPT !["cmd"] = RunStart]
    /\ UNCHANGED <<world, profile, sent_jobs, auto, jobs, new_jobs, idx, candidature,
                   history>>

\* the "Recherche..." send returned or raised; then await fetch_jobs()
MissionsSearch ==
    /\ NoneDone
    /\ pc["cmd"] = "status"
    /\ \E ok \in RequestOutcomes :
         IF ok THEN /\ pc' = [pc EXCEPT !["cmd"] = "fetch"]
                    /\ run' = [run EXCEPT !["cmd"].msgs = Posted("cmd", "status", TRUE)]
         ELSE Raise("cmd")
    /\ UNCHANGED <<world, profile, sent_jobs, auto, chat_id, jobs, new_jobs, idx, candidature,
                   history>>

\* scheduled_prospection up to the await of fetch_jobs()
ScheduledProspection ==
    /\ CanStart("job")
    /\ run' = [run EXCEPT !["job"] = [RunStart EXCEPT !.dest0 = auto_chat_id]]
    /\ IF Armed(auto_enabled, auto_chat_id)
       THEN /\ pc' = [pc EXCEPT !["job"] = "fetch"]
            /\ chat_id' = [chat_id EXCEPT !["job"] = auto_chat_id]
       ELSE /\ pc' = [pc EXCEPT !["job"] = "done"]
            /\ chat_id' = chat_id
    /\ UNCHANGED <<world, profile, sent_jobs, auto, jobs, new_jobs, idx, candidature,
                   history>>

\* fetch_jobs() returned: filter, then the "no news" send (cmd), a plain return
\* (job) or the announcement send
Fetched(p) ==
    /\ NoneDone
    /\ pc[p] = "fetch"
    /\ \E rokOk \in RequestOutcomes, abnOk \in RequestOutcomes :
         LET js == FetchJobs([ok |-> rokOk, data |-> rokData],
                             [ok |-> abnOk, data |-> abnData])
             new == NewJobs(js, sent_jobs)
         IN /\ jobs' = [jobs EXCEPT ![p] = js]
            /\ new_jobs' = [new_jobs EXCEPT ![p] = new]
            /\ run' = [run EXCEPT ![p].fetched = TRUE, ![p].rokUp = rokOk,
                                  ![p].abnUp = abnOk]
            /\ pc' = [pc EXCEPT ![p] = IF new # <<>> THEN "announce"
                                       ELSE IF p = "cmd" THEN "nonew" ELSE "done"]
    /\ UNCHANGED <<world, profile, sent_jobs, auto, chat_id, idx, candidature, history>>

\* the "Pas de nouvelles missions" send returned or raised
NoNewSent ==
    /\ NoneDone
    /\ pc["cmd"] = "nonew"
    /\ \E ok \in RequestOutcomes :
         /\ pc' = [pc EXCEPT !["cmd"] = "done"]
         /\ run' = [run EXCEPT !["cmd"].raised = ~ok,
                               !["cmd"].msgs = Posted("cmd", "nonew", ok)]
    /\ UNCHANGED <<world, profile, sent_jobs, auto, chat_id, jobs, new_jobs, idx, candidature,
                   history>>

\* the announcement send returned or raised; then the loop's first generation
Announced(p) ==
    /\ NoneDone
    /\ pc[p] = "announce"
    /\ \E ok \in RequestOutcomes :
         IF ok THEN /\ pc' = [pc EXCEPT ![p] = "gen"]
                    /\ idx' = [idx EXCEPT ![p] = 1]
                    /\ run' = [run EXCEPT ![p].msgs = Posted(p, "announce", TRUE)]
         ELSE Raise(p) /\ idx' = idx
    /\ UNCHANGED <<world, profile, sent_jobs, auto, chat_id, jobs, new_jobs, candidature,
                   history>>

\* generate_candidature returned; then the formatted send
Generated(p) ==
    /\ NoneDone
    /\ pc[p] = "gen"
    /\ \E resp \in GroqResponses :
         /\ candidature' = [candidature EXCEPT ![p] = GenerateCandidature(resp)]
         /\ run' = [run EXCEPT ![p].drafts = @ + 1, ![p].attempts = @ + 1,
                               ![p].prim = 1, ![p].fb = 0,
                               ![p].genFail = (resp # "ok")]
    /\ pc' = [pc EXCEPT ![p] = "send"]
    /\ UNCHANGED <<world, profile, sent_jobs, auto, chat_id, jobs, new_jobs, idx, history>>

\* a send of the current posting returned: mark it and go on
Deliver(p, how) ==
    LET id == Batch(p)[idx[p]].id IN
    /\ sent_jobs' = Tracked(sent_jobs, id, TRUE)
    /\ delivered' = [delivered EXCEPT ![p] = @ \cup {id}]
    /\ redelivered' = IF id \in AllDelivered \ run[p].delivered
                      THEN redelivered \cup {id} ELSE redelivered
    /\ run' = [run EXCEPT ![p].delivered = @ \cup {id}, ![p].last = "delivered",
                          ![p].finished = @ + 1, ![p].prim = 0, ![p].fb = 0,
                          ![p].msgs = Posted(p, "posting", TRUE),
                          ![p].again = IF id \in run[p].delivered
                                       THEN @ \cup {id} ELSE @]
    /\ idx' = [idx EXCEPT ![p] = @ + 1]
    /\ pc' = [pc EXCEPT ![p] = NextPc(p, idx[p], Len(Batch(p)), how)]

\* the formatted send returned, or raised: then the plain send
Sent(p) ==
    /\ NoneDone
    /\ pc[p] = "send"
    /\ \E ok \in SendOutcomes(Batch(p)[idx[p]].id) :
         IF ok THEN Deliver(p, "primary")
         ELSE /\ pc' = [pc EXCEPT ![p] = "fallback"]
              /\ run' = [run EXCEPT ![p].fb = 1]
              /\ UNCHANGED <<sent_jobs, idx, delivered, redelivered>>
    /\ UNCHANGED <<world, profile, auto, chat_id, jobs, new_jobs, candidature, stored>>

\* the plain send returned, or raised: then the posting stays unmarked
FallbackSent(p) ==
    /\ NoneDone
    /\ pc[p] = "fallback"
    /\ \E ok \in SendOutcomes(Batch(p)[idx[p]].id) :
         IF ok THEN Deliver(p, "fallback")
         ELSE LET id == Batch(p)[idx[p]].id IN
              /\ sent_jobs' = Tracked(sent_jobs, id, FALSE)
              /\ run' = [run EXCEPT ![p].failed = @ \cup {id}, ![p].last = "failed",
                                    ![p].finished = @ + 1, ![p].prim = 0,
                                    ![p].fb = 0]
              /\ idx' = [idx EXCEPT ![p] = @ + 1]
              /\ pc' = [pc EXCEPT ![p] = NextPc(p, idx[p], Len(Batch(p)), "failed")]
              /\ UNCHANGED <<delivered, redelivered>>
    /\ UNCHANGED <<world, profile, auto, chat_id, jobs, new_jobs, candidature, stored>>

\* the "Termine" send returned or raised
Finished ==
    /\ NoneDone
    /\ pc["cmd"] = "final"
    /\ \E ok \in RequestOutcomes :
         /\ pc' = [pc EXCEPT !["cmd"] = "done"]
         /\ run' = [run EXCEPT !["cmd"].raised = ~ok,
                               !["cmd"].msgs = Posted("cmd", "final", ok),
                               !["cmd"].reported =
                                   IF ok THEN Len(Batch("cmd")) ELSE NoCount]
    /\ UNCHANGED <<world, profile, sent_jobs, auto, chat_id, jobs, new_jobs, idx, candidature,
                   history>>

\* the coroutine is over: its locals are gone
Return(p) ==
    /\ pc[p] = "done"
    /\ pc' = [pc EXCEPT ![p] = "idle"]
    /\ chat_id' = [chat_id EXCEPT ![p] = NoChat]
    /\ jobs' = [jobs EXCEPT ![p] = <<>>]
    /\ new_jobs' = [new_jobs EXCEPT ![p] = <<>>]
    /\ idx' = [idx EXCEPT ![p] = 0]
    /\ candidature' = [candidature EXCEPT ![p] = Unset]
    /\ run' = [run EXCEPT ![p] = RunStart]
    /\ UNCHANGED <<world, profile, sent_jobs, auto, history>>

\* profil_command: show the profile, after saving the default one if none is saved
ProfilCommand(c) ==
    /\ NoneDone
    /\ pc["cmd"] = "idle"
    /\ profile' = [saved |-> TRUE, fields |-> GetProfile]
    /\ UNCHANGED <<world, sent_jobs, auto, pc, chat_id, jobs, new_jobs, idx, candidature,
                   run, history>>

\* setprofil_command: set one valid field of the profile to the joined value
SetprofilCommand(args) ==
    /\ NoneDone
    /\ pc["cmd"] = "idle"
    /\ profile' =
         IF Len(args) < 2 THEN profile
         ELSE LET field == Lower(Chars[args[1]])
                  value == Join(Tail(args))
              IN IF field \notin {Chars[f] : f \in ValidFields} THEN profile
                 ELSE LET name == CHOOSE f \in ValidFields : Chars[f] = field
                      IN [saved |-> TRUE, fields |-> [GetProfile EXCEPT ![name] = value]]
    /\ UNCHANGED <<world, sent_jobs, auto, pc, chat_id, jobs, new_jobs, idx, candidature,
                   run, history>>

Next ==
    \/ \E c \in chats : AutoCommand(c)
    \/ \E c \in chats : MissionsCommand(c)
    \/ MissionsSearch
    \/ ScheduledProspection
    \/ \E p \in Paths : Fetched(p)
    \/ NoNewSent
    \/ \E p \in Paths : Announced(p)
    \/ \E p \in Paths : Generated(p)
    \/ \E p \in Paths : Sent(p)
    \/ \E p \in Paths : FallbackSent(p)
    \/ Finished
    \/ \E p \in Paths : Return(p)

\* the program: the handler and the job interleave at their awaits
Spec == Init /\ [][Next]_vars

\* the same program when no pipeline invocation overlaps another
SpecSeq == InitSeq /\ [][Next]_vars

\* the pipeline, the toggle and the profile commands
NextAll ==
    \/ Next
    \/ \E c \in chats : ProfilCommand(c)
    \/ \E args \in ArgLists : SetprofilCommand(args)

\* two chats talk to the bot, and the profile commands are used
InitAll ==
    \/ InitWith({SplitWorld(1)}, {"D1", "D2"}, FALSE, {AnyFailure})
    \/ InitWith({SplitWorld(2)}, {"D1", "D2"}, TRUE, {AnyFailure})
SpecAll == InitAll /\ [][NextAll]_vars

\* the ids of the first k postings fetch_jobs returns from the long responses
LongIds(k) ==
    LET js == FetchJobs([ok |-> TRUE, data |-> LongWorld.rok],
                        [ok |-> TRUE, data |-> LongWorld.abn])
    IN {js[i].id : i \in 1..k}

\* The event loop resumes a coroutine whose awaited request is over (httpx
\* and Telegram requests end, by an answer or a timeout), and the JobQueue
\* fires scheduled_prospection again and again (run_repeating). Fetched(p) is
\* enabled exactly when p is at its fetch and no coroutine is returning, and
\* it leaves the fetch: weak fairness of it says that p is not at its fetch
\* for ever.
ResumeCmd == MissionsSearch \/ NoNewSent \/ Finished
Resume(p) == Announced(p) \/ Generated(p) \/ Sent(p) \/ FallbackSent(p) \/ Return(p)
FetchReturns(p) == []<>~(NoneDone /\ pc[p] = "fetch")
Fairness ==
    /\ WF_vars(ScheduledProspection)
    /\ WF_vars(ResumeCmd)
    /\ \A p \in Paths : WF_vars(Resume(p)) /\ FetchReturns(p)

\* unchanged responses with more postings than a batch, every request going
\* through but the sends of the first k postings, refused every time
InitLive ==
    InitWith({LongWorld}, {"D1"}, TRUE, {Rejecting(LongIds(k)) : k \in 0..BatchSize})
SpecLive == InitLive /\ [][Next]_vars /\ Fairness

\* ----------------------------------------------------------------- claims
IdsOf(s) == {s[i].id : i \in 1..Len(s)}
DistinctIds(s) == \A i, j \in 1..Len(s) : i # j => s[i].id # s[j].id

\* what fetch_jobs would return now from the responses invocation p got
Refetch(p) ==
    FetchJobs([ok |-> run[p].rokUp, data |-> rokData],
              [ok |-> run[p].abnUp, data |-> abnData])

\* the records of a response that are JSON objects and match a keyword, as
\* postings, in the order of the response
RECURSIVE RelevantRok(_)
RelevantRok(items) ==
    IF items = <<>> THEN <<>>
    ELSE (IF Head(items).json = "object" /\ AnyKeyword(RokSearchText(Head(items)))
          THEN <<RokJob(Head(items))>> ELSE <<>>) \o RelevantRok(Tail(items))

RECURSIVE RelevantAbn(_)
RelevantAbn(items) ==
    IF items = <<>> THEN <<>>
    ELSE (IF Head(items).json = "object" /\ AnyKeyword(AbnSearchText(Head(items)))
          THEN <<AbnJob(Head(items))>> ELSE <<>>) \o RelevantAbn(Tail(items))

Malformed(items) == {i \in 1..Len(items) : items[i].json # "object"}
RokFailed(p) == ~run[p].rokUp \/ Malformed(Tail(rokData)) # {}
AbnFailed(p) == ~run[p].abnUp \/ Malformed(abnData) # {}

\* C1: in serialized runs no id delivered by one invocation is delivered again
\* by a later one; after an invocation that delivered every new posting, the
\* same responses hold no new posting; and an invocation that finds no new
\* posting generates no draft.
C1_NoRedelivery ==
    /\ redelivered = {}
    /\ \A p \in Paths :
         /\ (run[p].fetched /\ new_jobs[p] = <<>>) => run[p].drafts = 0
         /\ (pc[p] = "done" /\ run[p].fetched /\ IdsOf(new_jobs[p]) \subseteq run[p].delivered)
                => NewJobs(Refetch(p), sent_jobs) = <<>>

\* a repeat invocation (on demand) finds postings, all delivered before by the job
C1_Witness ==
    /\ pc["cmd"] = "nonew"
    /\ jobs["cmd"] # <<>>
    /\ new_jobs["cmd"] = <<>>
    /\ IdsOf(jobs["cmd"]) \subseteq delivered["job"]

\* C2: every id in sent_jobs is the id of a posting some send (formatted or
\* plain) has handed to the chat.
C2_MarkedOnlyAfterDelivery == sent_jobs \subseteq AllDelivered

\* an id is marked while the id of a posting whose sends both failed is not
C2_Witness ==
    \E p \in Paths :
        /\ run[p].failed # {}
        /\ run[p].failed \cap sent_jobs = {}
        /\ sent_jobs # {}

\* C3: when an invocation ends, the id of every posting whose formatted and
\* plain send both failed is not in sent_jobs, and the batch the next
\* invocation computes from the same responses contains it.
C3_FailedStaysUnmarked ==
    \A p \in Paths :
        pc[p] = "done" =>
            \A x \in run[p].failed :
                /\ x \notin sent_jobs
                /\ x \in IdsOf(BatchOf(NewJobs(Refetch(p), sent_jobs)))

\* C4: an invocation that found n new postings with distinct ids has generated
\* drafts for and attempted delivery of exactly min(n, 5) of them, never more
\* than 5, and when all its deliveries succeeded n - min(n, 5) stay unseen.
C4_BatchCap ==
    \A p \in Paths :
        (pc[p] = "done" /\ run[p].fetched /\ DistinctIds(new_jobs[p])) =>
            LET n == Len(new_jobs[p])
                k == Min(n, 5)
            IN /\ run[p].drafts = k
               /\ run[p].attempts = k
               /\ run[p].drafts <= 5
               /\ run[p].failed = {} =>
                      Len(NewJobs(new_jobs[p], sent_jobs)) = n - k

InWindow(p) == pc[p] \in {"announce", "gen", "send", "fallback"}
\* suspended at an await of the pipeline
Executing(p) == pc[p] \notin {"idle", "done"}

\* C6: the scheduled run never executes between the on-demand invocation's
\* computation of new_jobs and its last mark (nor the reverse), and no id is
\* delivered by both paths.
C6_PathsSerialized ==
    /\ ~(InWindow("cmd") /\ Executing("job"))
    /\ ~(InWindow("job") /\ Executing("cmd"))
    /\ delivered["cmd"] \cap delivered["job"] = {}

\* C7: the postings of a batch are processed one after another, each with at
\* most one formatted send and at most one plain send, the plain send only
\* after the formatted send of that posting failed, and the loop goes through
\* the whole batch whatever failed.
C7_SequentialBatch ==
    \A p \in Paths :
        LET r == run[p] IN
        /\ r.prim <= 1 /\ r.fb <= 1
        /\ r.fb = 1 => (r.prim = 1 /\ pc[p] = "fallback")
        /\ r.attempts = r.drafts
        /\ pc[p] = "gen" => (r.drafts = r.finished /\ idx[p] = r.finished + 1)
        /\ pc[p] \in {"send", "fallback"} =>
               (r.drafts = r.finished + 1 /\ idx[p] = r.drafts /\ r.prim = 1)
        /\ (pc[p] = "final" \/ (pc[p] = "done" /\ r.fetched /\ ~r.raised)) =>
               r.finished = Len(Batch(p))

\* both sends of the first posting failed and the last posting was delivered
C7_Witness ==
    \E p \in Paths :
        /\ pc[p] = "final"
        /\ Len(Batch(p)) >= 2
        /\ Batch(p)[1].id \in run[p].failed
        /\ run[p].last = "delivered"
        /\ run[p].finished = Len(Batch(p))

\* C8: a failed generation gives the placeholder; the posting is sent with it
\* and marked when a send of it returns; and the loop goes on through the batch.
C8_PlaceholderDelivered ==
    \A p \in Paths :
        LET r == run[p] IN
        r.genFail =>
            /\ candidature[p] = Placeholder
            /\ pc[p] \in {"send", "fallback", "gen", "final", "done"}
            /\ pc[p] \in {"send", "fallback"} => r.prim = 1
            /\ (pc[p] \in {"gen", "final", "done"} /\ r.last = "delivered") =>
                   Batch(p)[r.finished].id \in sent_jobs \cap r.delivered
            /\ pc[p] = "gen" => r.finished < Len(Batch(p))
            /\ pc[p] \in {"final", "done"} => r.finished = Len(Batch(p))

\* a posting was delivered with the placeholder and the loop is at the next one
C8_Witness ==
    \E p \in Paths :
        /\ run[p].genFail
        /\ pc[p] = "gen"
        /\ run[p].last = "delivered"
        /\ Batch(p)[run[p].finished].id \in sent_jobs

\* C9: an invocation ends without an exception and has attempted every posting
\* of its batch.
C9_NothingPropagates ==
    \A p \in Paths :
        pc[p] = "done" =>
            /\ ~run[p].raised
            /\ run[p].fetched => run[p].attempts = Len(Batch(p))

\* C10: an adapter whose response holds one record that is no JSON object
\* returns the relevant ones of its other records.
C10_MalformedRecordSkipped ==
    \A p \in Paths :
        (/\ run[p].fetched /\ run[p].rokUp /\ run[p].abnUp
         /\ Cardinality(Malformed(Tail(rokData))) <= 1
         /\ Cardinality(Malformed(abnData)) <= 1) =>
            jobs[p] = RelevantRok(Tail(rokData)) \o RelevantAbn(abnData)

\* the searchable text of a RemoteOK record: title, tags and company
RokSearchable(item) ==
    Lower(Chars[Get(item.position, "")] \o <<" ">> \o Join(item.tags) \o <<" ">>
          \o Chars[Get(item.company, "")])

\* the searchable text of an Arbeitnow record: title, description and tags
AbnSearchable(item) ==
    Lower(Chars[Get(item.title, "")] \o <<" ">> \o Chars[Get(item.description, "")]
          \o <<" ">> \o Join(item.tags))

Returned(p, job) == \E j \in 1..Len(jobs[p]) : jobs[p][j] = job

\* C11: an adapter that got an answer returns a record as a posting if and
\* only if a keyword occurs in the lower-cased searchable text of the record.
C11_KeywordFilter ==
    \A p \in Paths :
        run[p].fetched =>
            /\ run[p].rokUp =>
                 \A i \in 2..Len(rokData) :
                     rokData[i].json = "object" =>
                         (Returned(p, RokJob(rokData[i]))
                              <=> AnyKeyword(RokSearchable(rokData[i])))
            /\ run[p].abnUp =>
                 \A i \in 1..Len(abnData) :
                     abnData[i].json = "object" =>
                         (Returned(p, AbnJob(abnData[i]))
                              <=> AnyKeyword(AbnSearchable(abnData[i])))

\* C12: the count in the closing message of an on-demand invocation is the
\* number of postings the invocation delivered and marked.
C12_ReportedCount ==
    (pc["cmd"] = "done" /\ run["cmd"].reported # NoCount) =>
        /\ run["cmd"].reported = Cardinality(run["cmd"].delivered)
        /\ run["cmd"].delivered \subseteq sent_jobs

\* C13: an invocation that found no new posting, because the sources failed or
\* because every posting fetched is marked, has sent the "no new postings"
\* message to its chat, generated no draft and marked nothing.
C13_NoNewPostings ==
    \A p \in Paths :
        (pc[p] = "done" /\ run[p].fetched /\ new_jobs[p] = <<>>) =>
            /\ <<"nonew", chat_id[p]>> \in run[p].msgs
            /\ run[p].drafts = 0
            /\ run[p].delivered = {}

\* C14: every toggle flips the flag, nothing else changes the flag or the
\* stored chat, a toggle that disables leaves the stored chat as it is, and a
\* stored chat never becomes unset again.
C14_ToggleKeepsDestination ==
    [][/\ (\E c \in chats : AutoCommand(c)) => auto_enabled' = ~auto_enabled
       /\ (auto_enabled' = auto_enabled) => auto_chat_id' = auto_chat_id
       /\ (auto_enabled /\ ~auto_enabled') => auto_chat_id' = auto_chat_id
       /\ auto_chat_id # NoChat => auto_chat_id' # NoChat]_vars

\* auto-mode was enabled and disabled again: the chat is still stored
C14_Witness == ~auto_enabled /\ auto_chat_id # NoChat

C16_TrackerMonotonic == [][sent_jobs \subseteq sent_jobs']_vars

\* two ids are marked, the toggle and a profile command have been used
C16_Witness ==
    /\ Cardinality(sent_jobs) = 2
    /\ profile.saved
    /\ auto_enabled

\* an invocation is at its fetch
Invoking == \E p \in Paths : pc[p] = "fetch"
\* the postings of the responses whose sends Telegram takes and that are not marked
Pending ==
    {id \in IdsOf(FetchJobs([ok |-> TRUE, data |-> rokData],
                            [ok |-> TRUE, data |-> abnData])) :
        id \notin net.rejects /\ id \notin sent_jobs}

\* C17: when invocations keep coming against unchanged responses, every
\* posting whose sends Telegram takes is delivered and marked in the end,
\* however many other postings keep failing.
C17_EventuallyDelivered == ([]<>Invoking) => <>(Pending = {})

\* C18: an invocation hands no posting id to the chat twice, also when its
\* batch holds two postings with the same id.
C18_OncePerInvocation ==
    \A p \in Paths : run[p].again = {}

\* C19: a scheduled tick while auto-mode is disabled returns at once: it
\* fetches nothing, generates no draft, sends no message and leaves sent_jobs,
\* the profile, the flag and the stored chat as they are.
C19_DisabledTickNoEffect ==
    [][(ScheduledProspection /\ ~auto_enabled) =>
           /\ pc'["job"] = "done"
           /\ ~run'["job"].fetched
           /\ run'["job"].drafts = 0
           /\ run'["job"].msgs = {}
           /\ run'["job"].delivered = {}
           /\ UNCHANGED <<sent_jobs, profile, auto_enabled, auto_chat_id, delivered>>]_vars

\* a tick has returned at once: auto-mode is disabled, though a chat is stored
\* and postings have been delivered before
C19_Witness ==
    /\ pc["job"] = "done"
    /\ ~auto_enabled
    /\ auto_chat_id # NoChat
    /\ ~run["job"].fetched
    /\ sent_jobs # {}

\* C20: while auto-mode is enabled a chat is stored, and every message of a
\* scheduled run went to the chat that was stored when the run started, which
\* is a chat: a scheduled run sends nothing while no chat is stored.
C20_ScheduledDestination ==
    /\ auto_enabled => auto_chat_id # NoChat
    /\ pc["job"] \notin {"idle", "done"} =>
           (run["job"].dest0 # NoChat /\ chat_id["job"] = run["job"].dest0)
    /\ \A m \in run["job"].msgs : m[2] = run["job"].dest0 /\ m[2] \in chats

\* a scheduled run has delivered a posting to the chat stored at its start,
\* after the other chat enabled auto-mode during the run
C20_Witness ==
    /\ auto_enabled
    /\ auto_chat_id # run["job"].dest0
    /\ <<"posting", run["job"].dest0>> \in run["job"].msgs
====
